---- MODULE Spec2Model ----
(***************************************************************************)
(* Model of the useTimer hook of capy-timer-app (hooks/useTimer.ts).       *)
(*                                                                         *)
(* The hook keeps one TimerSession in React state.  Commands (startTimer,  *)
(* pauseTimer, resetTimer, skipPhase) and the interval callback tick each  *)
(* apply one setSession update.  When tick sees the phase expire it does   *)
(* NOT change the session: it returns prev and schedules moveToNextPhase   *)
(* with setTimeout(.., 0).  The scheduled call is a separate step of the   *)
(* model (MoveToNextPhaseTimeout); commands may run before it fires.       *)
(*                                                                         *)
(* Every operation includes the render that follows it: the interval       *)
(* effect of the hook, the memoised getDisplayTime and, when the hook is   *)
(* used by HomeScreen, the save-coins effect.  A second hook instance      *)
(* (twin) with countUp negated receives the same commands and ticks.       *)
(***************************************************************************)
EXTENDS Integers, Naturals, Sequences, FiniteSets, TLC

\* ---- bounds of the model -------------------------------------------------
MaxFocus == 31
MaxBreak == 2
MaxLoops == 2
ShortFocus == 2
MaxSeconds == 3661
MaxTotalCoins == 2

\* ---- program constants ---------------------------------------------------
PREP_DURATION == 5 * 60
MinFocus == 30
CoinInterval == 30
MaxLoopCount == 9

VARIABLES
  settings,        \* TimerSettings passed to the hook (fixed for the run)
  session,         \* TimerSession held by useState
  pending,         \* number of scheduled setTimeout(moveToNextPhase, 0) calls
  ticksInPhase,    \* history: ticks delivered while running in this phase
  runKind,         \* history: "none" | "pure" | "spoiled" | "skippedStopped"
  pausedRunning,   \* history: pauseTimer was issued while running, and no
                   \* startTimer, resetTimer or skipPhase since
  ticksSinceStart, \* history: ticks while running in a start-then-ticks run
  interval,        \* intervalRef.current (0 = null) and the live setInterval ids
  memo,            \* the memoised getDisplayTime: its deps and captured values
  twin,            \* session, pending and memo of the countUp-negated instance
  home,            \* HomeScreen: mounted, totalCoins, saves since the last reset
  fmt              \* a call of the returned formatTime: argument and result

vars == <<settings, session, pending, ticksInPhase, runKind, pausedRunning,
          ticksSinceStart, interval, memo, twin, home, fmt>>

Phases == {"prep", "focus", "break", "completed"}
States == {"idle", "running", "paused", "completed"}

Configs ==
  [focusDuration : MinFocus..MaxFocus,
   breakDuration : 0..MaxBreak,
   loops         : 1..MaxLoops,
   hasPrep       : BOOLEAN,
   countUp       : {FALSE}]

\* configurations outside the documented ranges (focusDuration minimum 30,
\* breakDuration not negative, loops 1-9), as the hook's caller may pass them
InvalidConfig(s) ==
  \/ s.focusDuration < MinFocus
  \/ s.breakDuration < 0
  \/ s.loops < 1
  \/ s.loops > MaxLoopCount

OutOfRangeConfigs ==
  [focusDuration : 1..ShortFocus,
   breakDuration : {0 - 1, 0, 1},
   loops         : {0, 1, MaxLoopCount + 1},
   hasPrep       : BOOLEAN,
   countUp       : {FALSE}]

\* the settings of the twin instance: the same but for countUp
TwinSettings == [settings EXCEPT !.countUp = ~settings.countUp]

\* ---- pure helpers --------------------------------------------------------

getCurrentPhaseDurationFor_CountUp(phase, s) ==
  IF s.countUp THEN 0
  ELSE CASE phase = "prep"      -> PREP_DURATION
         [] phase = "focus"     -> s.focusDuration
         [] phase = "break"     -> s.breakDuration
         [] phase = "completed" -> 0

\* getCurrentPhaseDuration as closed over the settings s
getCurrentPhaseDurationFor(phase, s) ==
  CASE phase = "prep"      -> PREP_DURATION
    [] phase = "focus"     -> s.focusDuration
    [] phase = "break"     -> s.breakDuration
    [] phase = "completed" -> 0

getCurrentPhaseDuration(phase) == getCurrentPhaseDurationFor(phase, settings)

getTotalDuration ==
  (IF settings.hasPrep THEN PREP_DURATION ELSE 0)
    + (settings.focusDuration + settings.breakDuration) * settings.loops

InitialSession_NoPrepTime(s) ==
  [phase             |-> IF s.hasPrep THEN "prep" ELSE "focus",
   state             |-> "idle",
   currentLoop       |-> 1,
   totalLoops        |-> s.loops,
   timeElapsed       |-> 0,
   timeRemaining     |-> s.focusDuration,
   totalSessionTime  |-> s.focusDuration,
   coinsEarned       |-> 0,
   completedFocusTime |-> 0]

InitialSession_Clamped(s) ==
  LET f == IF s.focusDuration < MinFocus THEN MinFocus ELSE s.focusDuration
  IN
  [phase             |-> IF s.hasPrep THEN "prep" ELSE "focus",
   state             |-> "idle",
   currentLoop       |-> 1,
   totalLoops        |-> s.loops,
   timeElapsed       |-> 0,
   timeRemaining     |-> IF s.hasPrep THEN PREP_DURATION ELSE f,
   totalSessionTime  |-> IF s.hasPrep THEN PREP_DURATION ELSE f,
   coinsEarned       |-> 0,
   completedFocusTime |-> 0]

InitialSession(s) ==
  [phase             |-> IF s.hasPrep THEN "prep" ELSE "focus",
   state             |-> "idle",
   currentLoop       |-> 1,
   totalLoops        |-> s.loops,
   timeElapsed       |-> 0,
   timeRemaining     |-> IF s.hasPrep THEN PREP_DURATION ELSE s.focusDuration,
   totalSessionTime  |-> IF s.hasPrep THEN PREP_DURATION ELSE s.focusDuration,
   coinsEarned       |-> 0,
   completedFocusTime |-> 0]

\* coinsToAdd of moveToNextPhase
CoinsToAdd_SkipPays(prev, isSkipped) ==
  IF prev.phase = "focus"
    THEN prev.timeElapsed \div CoinInterval
    ELSE 0

CoinsToAdd_AnyPhase(prev, isSkipped) ==
  IF ~isSkipped
    THEN prev.timeElapsed \div CoinInterval
    ELSE 0

CoinsToAdd(prev, isSkipped) ==
  IF prev.phase = "focus" /\ ~isSkipped
    THEN prev.timeElapsed \div CoinInterval
    ELSE 0

\* completedFocusTime of moveToNextPhase
FocusTimeAfter_Reset(prev, isSkipped) ==
  IF prev.phase = "focus"
    THEN prev.timeElapsed
    ELSE prev.completedFocusTime

FocusTimeAfter(prev, isSkipped) ==
  IF prev.phase = "focus"
    THEN prev.completedFocusTime + prev.timeElapsed
    ELSE prev.completedFocusTime

\* nextLoop of moveToNextPhase
NextLoopFor(prev, s) ==
  CASE prev.phase = "focus" /\ s.breakDuration > 0 -> prev.currentLoop
    [] prev.phase = "focus" -> prev.currentLoop + 1
    [] prev.phase = "break" -> prev.currentLoop + 1
    [] OTHER -> prev.currentLoop

NextLoop(prev) == NextLoopFor(prev, settings)

\* nextPhase of moveToNextPhase
NextPhaseFor(prev, s) ==
  CASE prev.phase = "prep" -> "focus"
    [] prev.phase = "focus" /\ s.breakDuration > 0 -> "break"
    [] prev.phase = "focus" ->
         IF NextLoopFor(prev, s) <= s.loops THEN "focus" ELSE "completed"
    [] prev.phase = "break" ->
         IF NextLoopFor(prev, s) <= s.loops THEN "focus" ELSE "completed"
    [] OTHER -> "completed"

NextPhase_BreakAtZero(prev) ==
  CASE prev.phase = "prep" -> "focus"
    [] prev.phase = "focus" /\ settings.breakDuration >= 0 -> "break"
    [] prev.phase = "focus" ->
         IF NextLoop(prev) <= settings.loops THEN "focus" ELSE "completed"
    [] prev.phase = "break" ->
         IF NextLoop(prev) <= settings.loops THEN "focus" ELSE "completed"
    [] OTHER -> "completed"

NextPhase_NoFinalBreak(prev) ==
  CASE prev.phase = "prep" -> "focus"
    [] prev.phase = "focus" /\ settings.breakDuration > 0
         /\ prev.currentLoop < settings.loops -> "break"
    [] prev.phase = "focus" ->
         IF prev.currentLoop < settings.loops THEN "focus" ELSE "completed"
    [] prev.phase = "break" ->
         IF NextLoop(prev) <= settings.loops THEN "focus" ELSE "completed"
    [] OTHER -> "completed"

NextPhase_FallbackFocus(prev) ==
  CASE prev.phase = "prep" -> "focus"
    [] prev.phase = "focus" /\ settings.breakDuration > 0 -> "break"
    [] prev.phase = "focus" ->
         IF NextLoop(prev) <= settings.loops THEN "focus" ELSE "completed"
    [] prev.phase = "break" ->
         IF NextLoop(prev) <= settings.loops THEN "focus" ELSE "completed"
    [] OTHER -> "focus"

NextPhase(prev) == NextPhaseFor(prev, settings)

\* the updater passed to setSession by moveToNextPhase(isSkipped)
moveToNextPhase(prev, isSkipped) ==
  LET nextPhase     == NextPhase(prev)
      phaseDuration == getCurrentPhaseDuration(nextPhase)
  IN  [prev EXCEPT
         !.phase              = nextPhase,
         !.state              = IF nextPhase = "completed" THEN "completed"
                                ELSE prev.state,
         !.currentLoop        = NextLoop(prev),
         !.timeElapsed        = 0,
         !.timeRemaining      = phaseDuration,
         !.totalSessionTime   = phaseDuration,
         !.coinsEarned        = prev.coinsEarned + CoinsToAdd(prev, isSkipped),
         !.completedFocusTime = FocusTimeAfter(prev, isSkipped)]

\* the same updater in the instance whose callbacks closed over settings s
moveToNextPhaseFor(prev, isSkipped, s) ==
  LET nextPhase     == NextPhaseFor(prev, s)
      phaseDuration == getCurrentPhaseDurationFor(nextPhase, s)
  IN  [prev EXCEPT
         !.phase              = nextPhase,
         !.state              = IF nextPhase = "completed" THEN "completed"
                                ELSE prev.state,
         !.currentLoop        = NextLoopFor(prev, s),
         !.timeElapsed        = 0,
         !.timeRemaining      = phaseDuration,
         !.totalSessionTime   = phaseDuration,
         !.coinsEarned        = prev.coinsEarned + CoinsToAdd(prev, isSkipped),
         !.completedFocusTime = FocusTimeAfter(prev, isSkipped)]

\* tick: does the updater take the "phase complete" branch?
TickExpires(prev) ==
  /\ prev.state = "running"
  /\ prev.phase # "completed"
  /\ prev.timeRemaining - 1 <= 0

\* the updater passed to setSession by tick
TickUpdater_NoElapsed(prev) ==
  IF prev.state # "running" \/ prev.phase = "completed" THEN prev
  ELSE IF prev.timeRemaining - 1 <= 0 THEN prev
  ELSE [prev EXCEPT !.timeRemaining = prev.timeRemaining - 1]

TickUpdater_ToZero(prev) ==
  IF prev.state # "running" \/ prev.phase = "completed" THEN prev
  ELSE [prev EXCEPT !.timeElapsed   = prev.timeElapsed + 1,
                    !.timeRemaining = prev.timeRemaining - 1]

TickUpdater(prev) ==
  IF prev.state # "running" \/ prev.phase = "completed" THEN prev
  ELSE IF prev.timeRemaining - 1 <= 0 THEN prev
  ELSE [prev EXCEPT !.timeElapsed   = prev.timeElapsed + 1,
                    !.timeRemaining = prev.timeRemaining - 1]

\* the updaters passed to setSession by startTimer and pauseTimer
StartUpdater(prev) == [prev EXCEPT !.state = "running"]

PauseUpdater(prev) == [prev EXCEPT !.state = "paused"]

\* ---- what a render recomputes --------------------------------------------

\* useCallback(getDisplayTime, [timeElapsed, timeRemaining, countUp]): a new
\* closure over the current values when a dependency changed, else the old one
UseCallbackDisplay(m, sess, s) ==
  IF <<sess.timeElapsed, sess.timeRemaining, s.countUp>> # m.deps
    THEN [deps        |-> <<sess.timeElapsed, sess.timeRemaining, s.countUp>>,
          timeElapsed |-> sess.timeElapsed,
          timeRemaining |-> sess.timeRemaining,
          countUp     |-> s.countUp]
    ELSE m

FirstDisplay(sess, s) ==
  [deps        |-> <<sess.timeElapsed, sess.timeRemaining, s.countUp>>,
   timeElapsed |-> sess.timeElapsed,
   timeRemaining |-> sess.timeRemaining,
   countUp     |-> s.countUp]

\* getDisplayTime(), the displayTime returned by the hook
getDisplayTime(m) ==
  IF m.countUp THEN m.timeElapsed ELSE m.timeRemaining

\* the interval effect with dependency session.state: the cleanup of the
\* previous run (clearInterval of the ref, which stays set), then the body
NewId(live) == CHOOSE i \in 1..(Cardinality(live) + 1) : i \notin live

IntervalEffect_NoClear(iv, oldState, newState) ==
  IF oldState = newState THEN iv
  ELSE IF newState = "running"
         THEN [ref  |-> NewId(iv.live),
               live |-> iv.live \cup {NewId(iv.live)}]
         ELSE iv

IntervalEffect(iv, oldState, newState) ==
  IF oldState = newState THEN iv
  ELSE LET cleaned == IF iv.ref # 0
                        THEN [iv EXCEPT !.live = iv.live \ {iv.ref}]
                        ELSE iv
       IN  IF newState = "running"
             THEN [ref  |-> NewId(cleaned.live),
                   live |-> cleaned.live \cup {NewId(cleaned.live)}]
             ELSE IF cleaned.ref # 0
                    THEN [ref |-> 0, live |-> cleaned.live \ {cleaned.ref}]
                    ELSE cleaned

\* HomeScreen's save-coins effect with dependencies session.state and
\* session.coinsEarned
SaveCoinsEffect(h, old, new) ==
  IF /\ h.mounted
     /\ (old.state # new.state \/ old.coinsEarned # new.coinsEarned)
     /\ new.state = "completed"
     /\ new.coinsEarned > 0
    THEN [h EXCEPT !.totalCoins = h.totalCoins + new.coinsEarned,
                   !.saves      = h.saves + 1]
    ELSE h

\* the render after an update of the session (isReset: by resetTimer)
AfterRender(isReset) ==
  /\ interval' = IntervalEffect(interval, session.state, session'.state)
  /\ memo' = UseCallbackDisplay(memo, session', settings')
  /\ home' = IF isReset
               THEN [SaveCoinsEffect(home, session, session') EXCEPT
                       !.saves = 0]
               ELSE SaveCoinsEffect(home, session, session')

\* the twin instance after the same operation
TwinAfter(newSession, newPending) ==
  twin' = [session |-> newSession,
           pending |-> newPending,
           memo    |-> UseCallbackDisplay(twin.memo, newSession,
                                          TwinSettings')]

\* ---- formatTime ----------------------------------------------------------

\* Number.prototype.toString of a natural number, as a sequence of characters
Digit(d) == <<"0", "1", "2", "3", "4", "5", "6", "7", "8", "9">>[d + 1]

RECURSIVE toString(_)
toString(n) ==
  IF n < 10 THEN <<Digit(n)>>
  ELSE Append(toString(n \div 10), Digit(n % 10))

\* String.prototype.padStart with a one-character filler
RECURSIVE padStart(_, _, _)
padStart(str, targetLength, padString) ==
  IF Len(str) >= targetLength THEN str
  ELSE padStart(<<padString>> \o str, targetLength, padString)

formatTime_WrapMinutes(seconds) ==
  LET minutes          == (seconds \div 60) % 60
      remainingSeconds == seconds % 60
  IN  padStart(toString(minutes), 2, "0") \o <<":">> \o
      padStart(toString(remainingSeconds), 2, "0")

formatTime(seconds) ==
  LET minutes          == seconds \div 60
      remainingSeconds == seconds % 60
  IN  padStart(toString(minutes), 2, "0") \o <<":">> \o
      padStart(toString(remainingSeconds), 2, "0")

\* ---- initial state -------------------------------------------------------

Mounted(configs, withHome, args) ==
  /\ settings \in configs
  /\ session = InitialSession(settings)
  /\ pending = 0
  /\ ticksInPhase = 0
  /\ runKind = "none"
  /\ pausedRunning = FALSE
  /\ ticksSinceStart = 0
  /\ interval = [ref |-> 0, live |-> {}]
  /\ memo = FirstDisplay(session, settings)
  /\ twin = [session |-> InitialSession(TwinSettings),
             pending |-> 0,
             memo    |-> FirstDisplay(InitialSession(TwinSettings),
                                      TwinSettings)]
  /\ home = [mounted |-> withHome, totalCoins |-> 0, saves |-> 0]
  /\ fmt \in [arg : args, out : {<<>>}]

\* the hook rendered on its own with a configuration in the documented ranges
Init == Mounted(Configs, FALSE, {0})

\* ---- operations ----------------------------------------------------------

startTimer ==
  /\ session' = StartUpdater(session)
  /\ runKind' = IF runKind = "none" THEN "pure" ELSE "spoiled"
  /\ pausedRunning' = FALSE
  /\ ticksSinceStart' = 0
  /\ UNCHANGED <<settings, pending, ticksInPhase, fmt>>
  /\ AfterRender(FALSE)
  /\ TwinAfter(StartUpdater(twin.session), twin.pending)

pauseTimer ==
  /\ session' = PauseUpdater(session)
  /\ runKind' = "spoiled"
  /\ pausedRunning' = (session.state = "running" \/ pausedRunning)
  /\ ticksSinceStart' = 0
  /\ UNCHANGED <<settings, pending, ticksInPhase, fmt>>
  /\ AfterRender(FALSE)
  /\ TwinAfter(PauseUpdater(twin.session), twin.pending)

resetTimer_KeepCoins ==
  /\ session' = [InitialSession(settings) EXCEPT
                   !.coinsEarned = session.coinsEarned]
  /\ ticksInPhase' = 0
  /\ runKind' = IF pending = 0 THEN "none" ELSE "spoiled"
  /\ pausedRunning' = FALSE
  /\ ticksSinceStart' = 0
  /\ UNCHANGED <<settings, pending, fmt>>
  /\ AfterRender(TRUE)
  /\ TwinAfter(InitialSession(TwinSettings), twin.pending)

resetTimer ==
  /\ session' = InitialSession(settings)
  /\ ticksInPhase' = 0
  /\ runKind' = IF pending = 0 THEN "none" ELSE "spoiled"
  /\ pausedRunning' = FALSE
  /\ ticksSinceStart' = 0
  /\ UNCHANGED <<settings, pending, fmt>>
  /\ AfterRender(TRUE)
  /\ TwinAfter(InitialSession(TwinSettings), twin.pending)

skipPhase_Guarded ==
  /\ session' = IF session.state = "running"
                  THEN moveToNextPhase(session, TRUE) ELSE session
  /\ ticksInPhase' = 0
  /\ runKind' = IF session.state \in {"idle", "paused"}
                  THEN "skippedStopped" ELSE "spoiled"
  /\ pausedRunning' = FALSE
  /\ ticksSinceStart' = 0
  /\ UNCHANGED <<settings, pending, fmt>>
  /\ AfterRender(FALSE)
  /\ TwinAfter(IF twin.session.state = "running"
                 THEN moveToNextPhaseFor(twin.session, TRUE, TwinSettings)
                 ELSE twin.session, twin.pending)

skipPhase ==
  /\ session' = moveToNextPhase(session, TRUE)
  /\ ticksInPhase' = 0
  /\ runKind' = IF session.state \in {"idle", "paused"}
                  THEN "skippedStopped" ELSE "spoiled"
  /\ pausedRunning' = FALSE
  /\ ticksSinceStart' = 0
  /\ UNCHANGED <<settings, pending, fmt>>
  /\ AfterRender(FALSE)
  /\ TwinAfter(moveToNextPhaseFor(twin.session, TRUE, TwinSettings),
               twin.pending)

\* The interval callback; it runs only while a setInterval is live.  A
\* timeout scheduled by the previous tick is due 1000 ms before the next
\* tick, so it runs first.
tick ==
  /\ interval.live # {}
  /\ pending = 0
  /\ session' = TickUpdater(session)
  /\ pending' = IF TickExpires(session) THEN 1 ELSE 0
  /\ IF session.state = "running" /\ session.phase # "completed"
       THEN /\ ticksInPhase' = ticksInPhase + 1
            /\ ticksSinceStart' =
                 IF runKind = "pure" THEN ticksSinceStart + 1 ELSE 0
       ELSE UNCHANGED <<ticksInPhase, ticksSinceStart>>
  /\ UNCHANGED <<settings, runKind, pausedRunning, fmt>>
  /\ AfterRender(FALSE)
  /\ TwinAfter(TickUpdater(twin.session),
               IF TickExpires(twin.session) THEN 1 ELSE twin.pending)

\* setTimeout(moveToNextPhase, 0) fires: moveToNextPhase() with isSkipped
\* defaulting to false.
MoveToNextPhaseTimeout ==
  /\ pending > 0
  /\ session' = moveToNextPhase(session, FALSE)
  /\ pending' = pending - 1
  /\ ticksInPhase' = 0
  /\ UNCHANGED <<settings, runKind, pausedRunning, ticksSinceStart, fmt>>
  /\ AfterRender(FALSE)
  /\ IF twin.pending > 0
       THEN TwinAfter(moveToNextPhaseFor(twin.session, FALSE, TwinSettings),
                      twin.pending - 1)
       ELSE TwinAfter(twin.session, twin.pending)

Next ==
  \/ startTimer
  \/ pauseTimer
  \/ resetTimer
  \/ skipPhase
  \/ tick
  \/ MoveToNextPhaseTimeout

Spec == Init /\ [][Next]_vars

\* the hook constructed with an out-of-range configuration
InitAny == Mounted(OutOfRangeConfigs, FALSE, {0})

SpecAny == InitAny /\ [][Next]_vars

\* ---- the hook as used by HomeScreen --------------------------------------

InitHome == Mounted(Configs, TRUE, {0})

\* the Start Timer / Resume button, rendered while idle or paused
PressStart ==
  /\ session.state \in {"idle", "paused"}
  /\ startTimer

\* the Pause Timer button, rendered in every other run state
PressPause ==
  /\ session.state \notin {"idle", "paused"}
  /\ pauseTimer

\* the Reset button and the button of the completion alert
PressReset == resetTimer

\* the Skip Phase button, disabled unless running
PressSkip ==
  /\ session.state = "running"
  /\ skipPhase
  /\ home'.totalCoins <= MaxTotalCoins

HomeTick == tick

HomeTimeout ==
  /\ MoveToNextPhaseTimeout
  /\ home'.totalCoins <= MaxTotalCoins

\* The prep switch, disabled only while running: setTimerSettings, then the
\* render with the new settings and the effect that calls resetTimer when
\* the session is idle.
TogglePrep ==
  /\ session.state # "running"
  /\ settings' = [settings EXCEPT !.hasPrep = ~settings.hasPrep]
  /\ session' = IF session.state = "idle" THEN InitialSession(settings')
                ELSE session
  /\ ticksInPhase' = IF session.state = "idle" THEN 0 ELSE ticksInPhase
  /\ runKind' = IF session.state = "idle" /\ pending = 0 THEN "none"
                ELSE "spoiled"
  /\ pausedRunning' = (session.state # "idle" /\ pausedRunning)
  /\ ticksSinceStart' = 0
  /\ UNCHANGED <<pending, fmt>>
  /\ AfterRender(session.state = "idle")
  /\ TwinAfter(IF twin.session.state = "idle"
                 THEN InitialSession(TwinSettings') ELSE twin.session,
               twin.pending)

NextHome ==
  \/ PressStart
  \/ PressPause
  \/ PressReset
  \/ PressSkip
  \/ HomeTick
  \/ HomeTimeout
  \/ TogglePrep

SpecHome == InitHome /\ [][NextHome]_vars

\* ---- ticks and timeouts are eventually delivered -------------------------

\* setInterval delivers its callback while the interval is live, and a
\* timeout of 0 ms fires
SpecFair == Spec /\ WF_vars(tick) /\ WF_vars(MoveToNextPhaseTimeout)

\* ---- formatTime called on any number of seconds --------------------------

FormatTimeCall ==
  /\ fmt.out = <<>>
  /\ fmt' = [fmt EXCEPT !.out = formatTime(fmt.arg)]
  /\ UNCHANGED <<settings, session, pending, ticksInPhase, runKind,
                 pausedRunning, ticksSinceStart, interval, memo, twin, home>>

InitFormat == Mounted(Configs, FALSE, 0..MaxSeconds)

NextFormat == FormatTimeCall

SpecFormat == InitFormat /\ [][NextFormat]_vars

TypeOK ==
  /\ settings \in Configs
  /\ session.phase \in Phases
  /\ session.state \in States
  /\ pending \in 0..1
  /\ runKind \in {"none", "pure", "spoiled", "skippedStopped"}
  /\ interval.ref \in Nat
  /\ interval.live \subseteq Nat
  /\ twin.session.phase \in Phases
  /\ twin.pending \in 0..1
  /\ home.mounted \in BOOLEAN
  /\ home.totalCoins \in Nat
  /\ fmt.arg \in Nat

\* ---- steps named by the properties ---------------------------------------

\* a phase ends by natural expiry: the timeout scheduled by the expiring tick
\* fires in the phase whose ticks ran out
NaturalEnd(phase) ==
  /\ MoveToNextPhaseTimeout
  /\ session.phase = phase
  /\ ticksInPhase = getCurrentPhaseDuration(phase)

\* a phase ends, by expiry or by skip
PhaseEnd == skipPhase \/ MoveToNextPhaseTimeout

\* ---- properties ----------------------------------------------------------

\* C1: in every reachable state timeElapsed + timeRemaining equals the
\* duration of the current phase (300 / focusDuration / breakDuration / 0),
\* and totalSessionTime equals that same duration.
C1_ElapsedPlusRemaining ==
  LET d == CASE session.phase = "prep"      -> 300
             [] session.phase = "focus"     -> settings.focusDuration
             [] session.phase = "break"     -> settings.breakDuration
             [] session.phase = "completed" -> 0
  IN  /\ session.timeElapsed + session.timeRemaining = d
      /\ session.totalSessionTime = d

C1_Witness ==
  /\ session.phase = "break"
  /\ session.state = "running"
  /\ session.timeElapsed = 1
  /\ session.currentLoop = 2

\* C2: in every reachable state phase is completed if and only if the run
\* state is completed.
C2_PhaseCompletedIffStateCompleted ==
  (session.phase = "completed") <=> (session.state = "completed")

\* C3: in every reachable state 1 <= currentLoop <= loops, also once the
\* session is completed, and currentLoop never decreases between two resets.
C3_LoopInRange ==
  /\ [](session.currentLoop >= 1 /\ session.currentLoop <= settings.loops)
  /\ [][resetTimer \/ session'.currentLoop >= session.currentLoop]_vars

\* C4: a Focus phase that ends by natural expiry adds exactly
\* floor(focusDuration / 30) to coinsEarned.
C4_NaturalFocusCoins ==
  [][NaturalEnd("focus") =>
       session'.coinsEarned =
         session.coinsEarned + (settings.focusDuration \div 30)]_vars

\* C5: a Focus phase that ends by natural expiry adds exactly focusDuration
\* to completedFocusTime.
C5_NaturalFocusTime ==
  [][NaturalEnd("focus") =>
       session'.completedFocusTime =
         session.completedFocusTime + settings.focusDuration]_vars

\* C6: skipPhase while running in Focus after k < focusDuration ticks of the
\* phase leaves coinsEarned unchanged and adds exactly k to
\* completedFocusTime.
C6_SkipFocus ==
  [][(/\ skipPhase
      /\ session.state = "running"
      /\ session.phase = "focus"
      /\ ticksInPhase < settings.focusDuration)
     => /\ session'.coinsEarned = session.coinsEarned
        /\ session'.completedFocusTime =
             session.completedFocusTime + ticksInPhase]_vars

C6_Witness ==
  /\ session.phase = "break"
  /\ session.state = "running"
  /\ session.currentLoop = 1
  /\ session.timeElapsed = 0
  /\ session.coinsEarned = 0
  /\ session.completedFocusTime = 30
  /\ settings.focusDuration = 31

\* C7: coinsEarned grows only in the step that ends a Focus phase by natural
\* expiry; the end of a Preparation or Break phase (expiry or skip), start,
\* pause and ticks that do not expire the phase leave coinsEarned and
\* completedFocusTime unchanged.
C7_CoinsOnlyOnNaturalFocusEnd ==
  [][/\ (session'.coinsEarned > session.coinsEarned) => NaturalEnd("focus")
     /\ (\/ startTimer
         \/ pauseTimer
         \/ (tick /\ ~TickExpires(session))
         \/ (PhaseEnd /\ session.phase \in {"prep", "break"}))
        => /\ session'.coinsEarned = session.coinsEarned
           /\ session'.completedFocusTime = session.completedFocusTime]_vars

C7_Witness ==
  /\ settings.hasPrep
  /\ session.phase = "focus"
  /\ session.currentLoop = 2
  /\ session.coinsEarned = 1
  /\ runKind = "pure"

\* C8: coinsEarned and completedFocusTime are never negative and, in any
\* step other than reset, never decrease.
C8_Monotone ==
  /\ [](session.coinsEarned >= 0 /\ session.completedFocusTime >= 0)
  /\ [][resetTimer \/ (/\ session'.coinsEarned >= session.coinsEarned
                       /\ session'.completedFocusTime >=
                            session.completedFocusTime)]_vars

C8_Witness ==
  /\ session.currentLoop = 2
  /\ session.coinsEarned >= 1
  /\ session.completedFocusTime > settings.focusDuration

\* C9: with breakDuration > 0 and no preparation phase, start followed by
\* exactly loops*focusDuration + (loops-1)*breakDuration ticks and nothing
\* else leaves the session completed.
C9_CompletedAfterLastFocus ==
  (/\ runKind = "pure"
   /\ pending = 0
   /\ settings.breakDuration > 0
   /\ ~settings.hasPrep
   /\ ticksSinceStart = settings.loops * settings.focusDuration
                          + (settings.loops - 1) * settings.breakDuration)
  => (session.phase = "completed" /\ session.state = "completed")

Progress(sess) ==
  <<sess.phase, sess.currentLoop, sess.timeElapsed, sess.timeRemaining,
    sess.coinsEarned, sess.completedFocusTime>>

\* C11: currentLoop changes only at a phase end, by exactly +1, and only on
\* break -> focus and on focus -> focus with breakDuration = 0; the ends
\* prep -> focus, focus -> break, focus -> completed and break -> completed
\* leave it unchanged (resetTimer, which starts a new session, aside).
C11_LoopChangesOnlyOnNewFocus ==
  [][/\ (session'.currentLoop # session.currentLoop) =>
          \/ resetTimer
          \/ /\ PhaseEnd
             /\ session'.currentLoop = session.currentLoop + 1
             /\ session'.phase = "focus"
             /\ \/ session.phase = "break"
                \/ session.phase = "focus" /\ settings.breakDuration = 0
     /\ (/\ PhaseEnd
         /\ <<session.phase, session'.phase>> \in
              {<<"prep", "focus">>, <<"focus", "break">>,
               <<"focus", "completed">>, <<"break", "completed">>})
        => session'.currentLoop = session.currentLoop]_vars

\* C12: startTimer changes no field other than the run state, and changes
\* nothing at all when the run state is already running or is completed.
C12_StartFrame ==
  [][startTimer =>
       /\ Progress(session') = Progress(session)
       /\ session'.totalLoops = session.totalLoops
       /\ session'.totalSessionTime = session.totalSessionTime
       /\ (session.state \in {"running", "completed"} => session' = session)
    ]_vars

\* C13: pauseTimer sets the run state to paused only when it is running;
\* issued when idle, paused or completed it leaves the session unchanged.
C13_PauseFrame ==
  [][pauseTimer =>
       IF session.state = "running"
         THEN session' = [session EXCEPT !.state = "paused"]
         ELSE session' = session]_vars

\* C14: after pauseTimer was issued while running, and until the next
\* startTimer, resetTimer or skipPhase, neither a tick nor a previously
\* scheduled continuation changes phase, currentLoop, timeElapsed,
\* timeRemaining, coinsEarned or completedFocusTime.
C14_PausedIsFrozen ==
  [][(pausedRunning /\ (tick \/ MoveToNextPhaseTimeout))
       => Progress(session') = Progress(session)]_vars

\* C15: resetTimer issued in any reachable state yields exactly the initial
\* state of the configuration: idle, phase prep if hasPrep else focus,
\* currentLoop 1, timeElapsed 0, timeRemaining the first phase's duration,
\* coinsEarned 0, completedFocusTime 0.
C15_ResetYieldsInitial ==
  [][resetTimer =>
       /\ session'.state = "idle"
       /\ session'.phase = (IF settings.hasPrep THEN "prep" ELSE "focus")
       /\ session'.currentLoop = 1
       /\ session'.totalLoops = settings.loops
       /\ session'.timeElapsed = 0
       /\ session'.timeRemaining =
            (IF settings.hasPrep THEN 300 ELSE settings.focusDuration)
       /\ session'.totalSessionTime = session'.timeRemaining
       /\ session'.coinsEarned = 0
       /\ session'.completedFocusTime = 0]_vars

\* reset was issued in a session that had earned coins, right after the tick
\* that expired a phase
C15_Witness ==
  /\ session.state = "idle"
  /\ session.coinsEarned = 0
  /\ session.completedFocusTime = 0
  /\ session.currentLoop = 1
  /\ pending = 1
  /\ runKind = "spoiled"

\* C16: when resetTimer is issued after the tick that expires a phase and
\* before that tick's transition is applied, the transition does not fire
\* afterwards: the session stays the initial one.
C16_NoTransitionAfterReset ==
  [][(/\ MoveToNextPhaseTimeout
      /\ session.state = "idle"
      /\ session = InitialSession(settings))
     => session' = session]_vars

\* C17: the tick that brings timeRemaining to 0 applies the phase transition
\* in the same step, leaving nothing scheduled for later.
C17_ExpiryIsAtomic ==
  [][(tick /\ TickExpires(session)) =>
       /\ pending' = 0
       /\ session'.phase = NextPhase(session)
       /\ session'.timeElapsed = 0]_vars

\* C18 (as claimed): a configuration with focusDuration < 30,
\* breakDuration < 0 or loops outside 1..9 is rejected and produces no
\* session state.
C18_InvalidRejected ==
  InvalidConfig(settings) =>
    ~(session.state \in States /\ session.phase \in Phases)

\* C18 (amended): the hook does not validate; an out-of-range configuration
\* yields an idle session built from the values as given: totalLoops = loops
\* and timeRemaining = totalSessionTime = focusDuration (300 with prep).
C18_InvalidAccepted ==
  (InvalidConfig(settings) /\ runKind = "none") =>
    /\ session.state = "idle"
    /\ session.phase = (IF settings.hasPrep THEN "prep" ELSE "focus")
    /\ session.totalLoops = settings.loops
    /\ session.timeRemaining =
         (IF settings.hasPrep THEN 300 ELSE settings.focusDuration)
    /\ session.totalSessionTime = session.timeRemaining

C18_Witness ==
  /\ settings.focusDuration < 30
  /\ settings.breakDuration < 0
  /\ settings.loops > 9
  /\ ~settings.hasPrep
  /\ runKind = "none"
  /\ session.state = "idle"
  /\ session.timeRemaining = settings.focusDuration

\* C19: the initial state of any configuration is idle, currentLoop 1,
\* timeElapsed 0, coinsEarned 0, completedFocusTime 0, with phase prep and
\* timeRemaining 300 when hasPrep, else phase focus and timeRemaining
\* focusDuration.
C19_InitialState ==
  runKind = "none" =>
    /\ session.state = "idle"
    /\ session.currentLoop = 1
    /\ session.timeElapsed = 0
    /\ session.coinsEarned = 0
    /\ session.completedFocusTime = 0
    /\ IF settings.hasPrep
         THEN session.phase = "prep" /\ session.timeRemaining = 300
         ELSE /\ session.phase = "focus"
              /\ session.timeRemaining = settings.focusDuration

C19_Witness ==
  /\ runKind = "none"
  /\ settings.hasPrep
  /\ session.phase = "prep"
  /\ session.timeRemaining = 300

\* C20: a Focus phase that ends by natural expiry adds one coin per full
\* minute: floor(focusDuration / 60).
C20_CoinPerMinute ==
  [][NaturalEnd("focus") =>
       session'.coinsEarned =
         session.coinsEarned + (settings.focusDuration \div 60)]_vars

\* C21: formatTime(s) is floor(s / 60) left-padded with zeros to at least two
\* digits, a colon, and s mod 60 as exactly two digits; the minutes are not
\* wrapped at 60: formatTime(3661) = "61:01" and formatTime(0) = "00:00".
C21_FormatTime ==
  fmt.out # <<>> =>
    LET out == fmt.out
        n   == Len(out)
        val(c) == CHOOSE d \in 0..9 :
                    <<"0", "1", "2", "3", "4", "5", "6", "7", "8", "9">>[d + 1] = c
        isDigit(c) == c \in {"0", "1", "2", "3", "4", "5", "6", "7", "8", "9"}
        RECURSIVE number(_)
        number(str) == IF str = <<>> THEN 0
                       ELSE 10 * number(SubSeq(str, 1, Len(str) - 1))
                            + val(str[Len(str)])
    IN  /\ n >= 5
        /\ out[n - 2] = ":"
        /\ \A i \in (1..n) \ {n - 2} : isDigit(out[i])
        /\ number(SubSeq(out, n - 1, n)) = fmt.arg % 60
        /\ number(SubSeq(out, 1, n - 3)) = fmt.arg \div 60
        /\ (n > 5 => out[1] # "0")
        /\ (fmt.arg = 3661 => out = <<"6", "1", ":", "0", "1">>)
        /\ (fmt.arg = 0 => out = <<"0", "0", ":", "0", "0">>)

C21_Witness ==
  /\ fmt.arg = 3661
  /\ fmt.out = <<"6", "1", ":", "0", "1">>

\* C22: displayTime is timeElapsed when countUp is true and timeRemaining when
\* it is false, and countUp has no influence on the session: the instance
\* that differs only in countUp is in the same phase, run state and loop, with
\* the same coins and completed focus time, after the same commands and ticks.
C22_DisplayAndCountUp ==
  /\ getDisplayTime(memo) =
       (IF settings.countUp THEN session.timeElapsed
        ELSE session.timeRemaining)
  /\ getDisplayTime(twin.memo) =
       (IF TwinSettings.countUp THEN twin.session.timeElapsed
        ELSE twin.session.timeRemaining)
  /\ twin.session.phase = session.phase
  /\ twin.session.state = session.state
  /\ twin.session.currentLoop = session.currentLoop
  /\ twin.session.coinsEarned = session.coinsEarned
  /\ twin.session.completedFocusTime = session.completedFocusTime

C22_Witness ==
  /\ ~settings.countUp
  /\ TwinSettings.countUp
  /\ session.phase = "focus"
  /\ session.state = "paused"
  /\ twin.session.phase = "focus"
  /\ getDisplayTime(memo) = 1
  /\ getDisplayTime(twin.memo) = MinFocus

\* C23 as stated: skipPhase while the run state is idle or paused changes
\* neither phase, loop, timers, coins nor completed focus time.
C23_SkipNoOp ==
  [][(skipPhase /\ session.state \in {"idle", "paused"}) =>
       Progress(session') = Progress(session)]_vars

\* C23: skipPhase while the run state is idle or paused, in a phase other than
\* completed, performs the phase transition as it does while running: phase
\* or loop changes, the timers restart, no coins are added, the elapsed time
\* of a Focus phase is added to completedFocusTime, and the run state is kept
\* unless the transition completes the session.
C23_SkipTransitionsWhenStopped ==
  [][(/\ skipPhase
      /\ session.state \in {"idle", "paused"}
      /\ session.phase # "completed") =>
       /\ <<session'.phase, session'.currentLoop>> #
            <<session.phase, session.currentLoop>>
       /\ session'.timeElapsed = 0
       /\ session'.coinsEarned = session.coinsEarned
       /\ session'.completedFocusTime =
            session.completedFocusTime +
              (IF session.phase = "focus" THEN session.timeElapsed ELSE 0)
       /\ session'.state =
            (IF session'.phase = "completed" THEN "completed"
             ELSE session.state)]_vars

C23_Witness ==
  /\ runKind = "skippedStopped"
  /\ session.state = "paused"
  /\ session.phase = "break"
  /\ session.completedFocusTime = 5
  /\ session.coinsEarned = 0

\* C24: the interval that delivers ticks is live exactly when the run state is
\* running: at most one interval is live, none while idle, paused or
\* completed, and no tick is delivered in those states.
C24_IntervalIffRunning ==
  /\ [](/\ Cardinality(interval.live) <= 1
        /\ (interval.live # {}) <=> (session.state = "running")
        /\ (interval.live # {}) => (interval.live = {interval.ref}))
  /\ [][tick => session.state = "running"]_vars

C24_Witness ==
  /\ session.state = "paused"
  /\ pausedRunning
  /\ session.timeElapsed = 2
  /\ interval.live = {}

\* C25: the configuration changes only while the run state is idle.
C25_ConfigFixedOutsideIdle ==
  [][session.state # "idle" => settings' = settings]_vars

\* C26: once the phase is completed, startTimer, pauseTimer, tick, skipPhase
\* and a late timeout leave phase, loop, timers, coins and completed focus
\* time unchanged.
C26_CompletedIsFinal ==
  [][(/\ session.phase = "completed"
      /\ \/ startTimer
         \/ pauseTimer
         \/ tick
         \/ skipPhase
         \/ MoveToNextPhaseTimeout) =>
       Progress(session') = Progress(session)]_vars

C26_Witness ==
  /\ session.phase = "completed"
  /\ session.state = "paused"
  /\ session.coinsEarned = 1
  /\ runKind = "spoiled"

C28_RemainingPositive ==
  /\ session.phase # "completed" =>
       (session.timeRemaining >= 1 /\ session.timeElapsed >= 0)
  /\ session.phase = "break" => settings.breakDuration # 0

C28_Witness ==
  /\ session.phase = "break"
  /\ session.timeRemaining = 1
  /\ session.timeElapsed = 1
  /\ pending = 1

\* C29: totalCoins is credited only in a step that leaves the run state
\* completed, and at most once between two resets.
C29_SavedAtMostOnce ==
  /\ [](home.saves <= 1)
  /\ [][home'.totalCoins # home.totalCoins =>
         session'.state = "completed"]_vars

====
